---- MODULE Spec2Model ----
(***************************************************************************)
(* Lease allocation engine of the DHCP server (src/dhcp_server.go).        *)
(*                                                                         *)
(* An IPv4 address of the served subnet is modelled by its last octet.     *)
(* A configured reservation value is a string; it is modelled by the pair  *)
(* <<form, octet>>: "dotted" is the canonical text "192.168.2.<octet>",    *)
(* "mapped" is the IPv4-mapped text "::ffff:192.168.2.<octet>" (parses to  *)
(* the same address, is a different string), "bad" is text that does not   *)
(* parse.  Wall-clock time is a counter of whole seconds.                  *)
(***************************************************************************)
EXTENDS Integers, Sequences, FiniteSets, TLC

\* ---------------------------------------------------------------- bounds
\* Last second the clock reaches.
MaxTime == 2
\* config.LeaseDuration of the configurations explored.
LeaseDuration == 1
\* Last octet of the dynamic range (the source hardcodes 254).
RangeHi == 3
\* First octet of the dynamic range.
RangeLo == 2

\* Client hardware addresses (mac.String()).
MACs == {"A", "B", "C"}
\* The ServeDHCP handlers dispatched concurrently, one goroutine per packet.
Handlers == {1, 2}

NoMac == "none"
NoIP == 0
OutOfRangeIP == 50

\* p.OpCode and p.MessageType() of the packets explored.
OpRequest == "BOOTREQUEST"
OpReply == "BOOTREPLY"
Discover == "DISCOVER"
Request == "REQUEST"
Release == "RELEASE"
Offer == "OFFER"
Ack == "ACK"
NoType == "none"
ServedTypes == {Discover, Request}
\* The packets ServeDHCP returns on without calling getIPForClient.
IgnoredPackets ==
    { <<OpReply, Discover>>, <<OpReply, Request>>,
      <<OpReply, Release>>, <<OpRequest, Release>> }

ErrNone == "ok"
ErrInvalidReserved == "invalid reserved IP"
ErrNoAvailable == "no available IPs"

\* ----------------------------------------------------- pure functions
\* fmt.Sprintf("192.168.2.%d", i) and net.IP.String() of an IPv4 address.
IPString(ip) == <<"dotted", ip>>

\* net.ParseIP: nil (NoIP) for text that is no address.
ParseIP(s) == IF s[1] = "bad" THEN NoIP ELSE s[2]

\* The configurations explored: config.ReservedAddresses, MAC -> text.
NoReservations == [m \in {} |-> <<"bad", 0>>]
Configs ==
    { NoReservations,
      [m \in {"A"} |-> <<"dotted", 3>>],
      [m \in {"A"} |-> <<"dotted", OutOfRangeIP>>],
      [m \in {"A"} |-> <<"mapped", 3>>],
      [m \in {"A"} |-> <<"bad", 0>>] }

\* NewDHCPServer: the range in ascending order, without the addresses whose
\* text equals a reservation value.
RECURSIVE InitialPool(_, _)
InitialPool(i, cfg) ==
    IF i > RangeHi THEN << >>
    ELSE IF \E m \in DOMAIN cfg : cfg[m] = IPString(i)
         THEN InitialPool(i + 1, cfg)
         ELSE <<i>> \o InitialPool(i + 1, cfg)

\* time.Now().Add(LeaseDuration * time.Second)
Expiry(t) == t + LeaseDuration

\* time.Now().Before(lease.ExpiresAt)
Before(t, lease) == t < lease.exp

\* time.Now().After(lease.ExpiresAt)
After(t, lease) == t > lease.exp

VARIABLES
    reserved,     \* config.ReservedAddresses
    leases,       \* s.leases: MAC -> [ip, exp]
    availableIPs, \* s.availableIPs
    mutex,        \* s.mutex: TRUE when locked
    now,          \* the wall clock
    pc,           \* per handler: position in ServeDHCP and getIPForClient
    arg,          \* per handler: the mac of its call
    kind,         \* per handler: the message type of its packet
    res,          \* per handler: the address getIPForClient returned to it
    ret,          \* the (mac, ip, err) of the call that returned in the last step
    served,       \* the packet whose ServeDHCP ended in the last step, and the
                  \* reply it put on the wire
    everExpired,  \* history: some lease record has been past its expiry
    entryIP,      \* history: the address the caller of the running call held
                  \* by an unexpired lease when the call dropped its record
    droppedIP,    \* history: the address of the record the running call dropped
    visited,      \* per handler: the keys the range over s.leases at line 123
                  \* has visited so far
    sweepEntry    \* history: the clock and the length of the pool when the
                  \* running call went on to the sweep, until it returns

vars == <<reserved, leases, availableIPs, mutex, now, pc, arg, kind, res, ret, served,
          everExpired, entryIP, droppedIP, visited, sweepEntry>>

NoSweep == [at |-> -1, len |-> 0]

NoReturn == [mac |-> NoMac, ip |-> NoIP, err |-> ErrNone]

NoServed == [op |-> NoType, type |-> NoType, mac |-> NoMac, reply |-> NoType, yiaddr |-> NoIP]

\* Lines 178-186 and 203-211: the reply to a packet of message type k.
ReplyType(k) == IF k = Discover THEN Offer ELSE Ack

Init ==
    /\ reserved \in Configs
    /\ leases = [m \in {} |-> [ip |-> NoIP, exp |-> 0]]
    /\ availableIPs = InitialPool(RangeLo, reserved)
    /\ mutex = FALSE
    /\ now = 0
    /\ pc = [h \in Handlers |-> "idle"]
    /\ arg = [h \in Handlers |-> NoMac]
    /\ kind = [h \in Handlers |-> NoType]
    /\ res = [h \in Handlers |-> NoIP]
    /\ ret = NoReturn
    /\ served = NoServed
    /\ everExpired = FALSE
    /\ entryIP = NoIP
    /\ droppedIP = NoIP
    /\ visited = [h \in Handlers |-> {}]
    /\ sweepEntry = NoSweep

\* ------------------------------------------------------------ helpers
\* The lease table with the record of mac set / removed.
SetLease(ls, mac, rec) ==
    [m \in DOMAIN ls \cup {mac} |-> IF m = mac THEN rec ELSE ls[m]]

DeleteLease(ls, mac) == [m \in DOMAIN ls \ {mac} |-> ls[m]]

\* Lines 108-113 and 134-139: some other MAC holds ip with a lease that
\* has not run out.
HeldByOther(ls, mac, ip, t) ==
    \E o \in DOMAIN ls : o # mac /\ ls[o].ip = ip /\ Before(t, ls[o])

\* Lines 127-132: the address text equals a reservation value.
IsReserved(ip) == \E m \in DOMAIN reserved : IPString(ip) = reserved[m]

\* Mutant of Reclaimable: the expiry test reads Before instead of After.
ReclaimableUnexpired(ls, mac, t) ==
    { m \in DOMAIN ls :
        /\ Before(t, ls[m])
        /\ m # mac
        /\ ~IsReserved(ls[m].ip)
        /\ ~HeldByOther(ls, m, ls[m].ip, t) }

\* Lines 123-140: the records that pass the tests of the sweep when the
\* clock reads t.
Reclaimable(ls, mac, t) ==
    { m \in DOMAIN ls :
        /\ After(t, ls[m])
        /\ m # mac
        /\ ~IsReserved(ls[m].ip)
        /\ ~HeldByOther(ls, m, ls[m].ip, t) }

\* The orders in which a set of keys may be listed.
Orders(S) ==
    { s \in [1..Cardinality(S) -> S] :
        \A i, j \in 1..Cardinality(S) : i # j => s[i] # s[j] }

\* Mutant of Return: the call returns without releasing the mutex.
ReturnKeepsLock(h, ip, err) ==
    /\ mutex' = mutex
    /\ ret' = [mac |-> arg[h], ip |-> ip, err |-> err]
    /\ entryIP' = NoIP
    /\ droppedIP' = NoIP
    /\ sweepEntry' = NoSweep
    /\ pc' = [pc EXCEPT ![h] = IF err = ErrNone THEN "reply" ELSE "fail"]
    /\ res' = [res EXCEPT ![h] = ip]
    /\ served' = NoServed
    /\ UNCHANGED <<arg, kind, visited>>

\* The deferred s.mutex.Unlock() (line 79) and the return of (ip, err) to
\* ServeDHCP (172, 197).  The handler has not ended: outside the mutex it
\* goes on to the test of err at 173 / 198.
Return(h, ip, err) ==
    /\ mutex' = FALSE
    /\ ret' = [mac |-> arg[h], ip |-> ip, err |-> err]
    /\ entryIP' = NoIP
    /\ droppedIP' = NoIP
    /\ sweepEntry' = NoSweep
    /\ pc' = [pc EXCEPT ![h] = IF err = ErrNone THEN "reply" ELSE "fail"]
    /\ res' = [res EXCEPT ![h] = ip]
    /\ served' = NoServed
    /\ UNCHANGED <<arg, kind, visited>>

\* ------------------------------------------------------------ actions
\* ServeDHCP is dispatched for a boot request of client mac with message
\* type k, DISCOVER or REQUEST, and calls getIPForClient.
Call(h, mac, k) ==
    /\ pc[h] = "idle"
    /\ k \in ServedTypes
    /\ pc' = [pc EXCEPT ![h] = "lock"]
    /\ arg' = [arg EXCEPT ![h] = mac]
    /\ kind' = [kind EXCEPT ![h] = k]
    /\ ret' = NoReturn
    /\ served' = NoServed
    /\ UNCHANGED <<reserved, leases, availableIPs, mutex, now, res, everExpired,
                   entryIP, droppedIP, visited, sweepEntry>>

\* Lines 164-166 and 170: ServeDHCP is dispatched for a packet that is no
\* boot request, or has another message type, and returns.
Ignore(h, pkt) ==
    /\ pc[h] = "idle"
    /\ pkt[1] # OpRequest \/ pkt[2] \notin ServedTypes
    /\ ret' = NoReturn
    /\ served' = [op |-> pkt[1], type |-> pkt[2], mac |-> NoMac,
                  reply |-> NoType, yiaddr |-> NoIP]
    /\ UNCHANGED <<reserved, leases, availableIPs, mutex, now, pc, arg, kind, res,
                   everExpired, entryIP, droppedIP, visited, sweepEntry>>

\* Mutant of Lock: the call enters without waiting for the mutex.
LockWithoutWaiting(h) ==
    /\ pc[h] = "lock"
    /\ mutex' = TRUE
    /\ pc' = [pc EXCEPT ![h] = "check"]
    /\ ret' = NoReturn
    /\ served' = NoServed
    /\ UNCHANGED <<reserved, leases, availableIPs, now, arg, kind, res, everExpired,
                   entryIP, droppedIP, visited, sweepEntry>>

\* s.mutex.Lock()
Lock(h) ==
    /\ pc[h] = "lock"
    /\ mutex = FALSE
    /\ mutex' = TRUE
    /\ pc' = [pc EXCEPT ![h] = "check"]
    /\ ret' = NoReturn
    /\ served' = NoServed
    /\ UNCHANGED <<reserved, leases, availableIPs, now, arg, kind, res, everExpired,
                   entryIP, droppedIP, visited, sweepEntry>>

\* Mutant of ReservedPath: an existing record is returned as it is, its
\* expiry not extended.
ReservedPathNoRenewal(h) ==
    LET mac == arg[h]
        ip == ParseIP(reserved[mac])
    IN  /\ pc[h] = "check"
        /\ mac \in DOMAIN reserved
        /\ IF ip = NoIP
           THEN /\ Return(h, NoIP, ErrInvalidReserved)
                /\ UNCHANGED leases
           ELSE /\ leases' = IF mac \in DOMAIN leases THEN leases
                             ELSE SetLease(leases, mac, [ip |-> ip, exp |-> Expiry(now)])
                /\ Return(h, ip, ErrNone)
        /\ UNCHANGED <<reserved, availableIPs, now, everExpired>>

\* Mutant of ReservedPath: a reservation that does not parse is passed over
\* and the call goes on to the sweep and the pool.
ReservedPathFallsBack(h) ==
    LET mac == arg[h]
        ip == ParseIP(reserved[mac])
    IN  /\ pc[h] = "check"
        /\ mac \in DOMAIN reserved
        /\ IF ip = NoIP
           THEN /\ pc' = [pc EXCEPT ![h] = "sweep"]
                /\ ret' = NoReturn
                /\ served' = NoServed
                /\ sweepEntry' = [at |-> now, len |-> Len(availableIPs)]
                /\ UNCHANGED <<leases, mutex, arg, kind, res, entryIP, droppedIP, visited>>
           ELSE /\ leases' = SetLease(leases, mac, [ip |-> ip, exp |-> Expiry(now)])
                /\ Return(h, ip, ErrNone)
        /\ UNCHANGED <<reserved, availableIPs, now, everExpired>>

\* Lines 83-101: the reservation of the caller decides.
ReservedPath(h) ==
    LET mac == arg[h]
        ip == ParseIP(reserved[mac])
    IN  /\ pc[h] = "check"
        /\ mac \in DOMAIN reserved
        /\ IF ip = NoIP
           THEN /\ Return(h, NoIP, ErrInvalidReserved)
                /\ UNCHANGED leases
           ELSE /\ leases' = SetLease(leases, mac, [ip |-> ip, exp |-> Expiry(now)])
                /\ Return(h, ip, ErrNone)
        /\ UNCHANGED <<reserved, availableIPs, now, everExpired>>

\* Mutant of ReusePath: only a record that has not run out is reused; an
\* expired one is dropped like a blocked one.
ReusePathUnexpiredOnly(h) ==
    LET mac == arg[h]
    IN  /\ pc[h] = "check"
        /\ mac \notin DOMAIN reserved
        /\ IF mac \in DOMAIN leases
           THEN IF /\ ~HeldByOther(leases, mac, leases[mac].ip, now)
                   /\ ~After(now, leases[mac])
                THEN /\ leases' = [leases EXCEPT ![mac].exp = Expiry(now)]
                     /\ Return(h, leases[mac].ip, ErrNone)
                ELSE /\ leases' = DeleteLease(leases, mac)
                     /\ pc' = [pc EXCEPT ![h] = "sweep"]
                     /\ ret' = NoReturn
                     /\ served' = NoServed
                     /\ entryIP' = IF Before(now, leases[mac])
                                   THEN leases[mac].ip ELSE NoIP
                     /\ droppedIP' = leases[mac].ip
                     /\ sweepEntry' = [at |-> now, len |-> Len(availableIPs)]
                     /\ UNCHANGED <<mutex, arg, kind, res, visited>>
           ELSE /\ pc' = [pc EXCEPT ![h] = "sweep"]
                /\ ret' = NoReturn
                /\ served' = NoServed
                /\ sweepEntry' = [at |-> now, len |-> Len(availableIPs)]
                /\ UNCHANGED <<leases, mutex, arg, kind, res, entryIP, droppedIP, visited>>
        /\ UNCHANGED <<reserved, availableIPs, now, everExpired>>

\* Lines 103-120: the caller's own record, expired or not.
ReusePath(h) ==
    LET mac == arg[h]
    IN  /\ pc[h] = "check"
        /\ mac \notin DOMAIN reserved
        /\ IF mac \in DOMAIN leases
           THEN IF ~HeldByOther(leases, mac, leases[mac].ip, now)
                THEN /\ leases' = [leases EXCEPT ![mac].exp = Expiry(now)]
                     /\ Return(h, leases[mac].ip, ErrNone)
                ELSE /\ leases' = DeleteLease(leases, mac)
                     /\ pc' = [pc EXCEPT ![h] = "sweep"]
                     /\ ret' = NoReturn
                     /\ served' = NoServed
                     /\ entryIP' = IF Before(now, leases[mac])
                                   THEN leases[mac].ip ELSE NoIP
                     /\ droppedIP' = leases[mac].ip
                     /\ sweepEntry' = [at |-> now, len |-> Len(availableIPs)]
                     /\ UNCHANGED <<mutex, arg, kind, res, visited>>
           ELSE /\ pc' = [pc EXCEPT ![h] = "sweep"]
                /\ ret' = NoReturn
                /\ served' = NoServed
                /\ sweepEntry' = [at |-> now, len |-> Len(availableIPs)]
                /\ UNCHANGED <<leases, mutex, arg, kind, res, entryIP, droppedIP, visited>>
        /\ UNCHANGED <<reserved, availableIPs, now, everExpired>>

\* Mutant of Sweep: the loop stops after the first address it gives back.
SweepFirstOnly(h) ==
    /\ pc[h] = "sweep"
    /\ LET rest == DOMAIN leases \ visited[h]
       IN  IF rest = {}
           THEN /\ availableIPs' = availableIPs
                /\ pc' = [pc EXCEPT ![h] = "alloc"]
                /\ visited' = [visited EXCEPT ![h] = {}]
           ELSE \E m \in rest :
                   /\ availableIPs' = IF m \in Reclaimable(leases, arg[h], now)
                                      THEN Append(availableIPs, leases[m].ip)
                                      ELSE availableIPs
                   /\ IF rest = {m} \/ m \in Reclaimable(leases, arg[h], now)
                      THEN /\ pc' = [pc EXCEPT ![h] = "alloc"]
                           /\ visited' = [visited EXCEPT ![h] = {}]
                      ELSE /\ visited' = [visited EXCEPT ![h] = @ \cup {m}]
                           /\ UNCHANGED pc
    /\ ret' = NoReturn
    /\ served' = NoServed
    /\ UNCHANGED <<reserved, leases, mutex, now, arg, kind, res, everExpired,
                   entryIP, droppedIP, sweepEntry>>

\* Mutant of Sweep: a record whose address is given back is removed.
SweepRemovesRecords(h) ==
    /\ pc[h] = "sweep"
    /\ LET rest == DOMAIN leases \ visited[h]
       IN  IF rest = {}
           THEN /\ availableIPs' = availableIPs
                /\ leases' = leases
                /\ pc' = [pc EXCEPT ![h] = "alloc"]
                /\ visited' = [visited EXCEPT ![h] = {}]
           ELSE \E m \in rest :
                   /\ availableIPs' = IF m \in Reclaimable(leases, arg[h], now)
                                      THEN Append(availableIPs, leases[m].ip)
                                      ELSE availableIPs
                   /\ leases' = IF m \in Reclaimable(leases, arg[h], now)
                                THEN DeleteLease(leases, m)
                                ELSE leases
                   /\ IF rest = {m}
                      THEN /\ pc' = [pc EXCEPT ![h] = "alloc"]
                           /\ visited' = [visited EXCEPT ![h] = {}]
                      ELSE /\ visited' = [visited EXCEPT ![h] = @ \cup {m}]
                           /\ UNCHANGED pc
    /\ ret' = NoReturn
    /\ served' = NoServed
    /\ UNCHANGED <<reserved, mutex, now, arg, kind, res, everExpired, entryIP,
                   droppedIP, sweepEntry>>

\* Lines 122-145, one iteration of the range over s.leases per step.  The
\* map is visited in any order, each key once.  The code reads time.Now()
\* anew for the record of every iteration (124) and in its inner loop (135),
\* and the clock runs on while the mutex is held: the step tests the record
\* of m against the clock of its own iteration, and Tick may fall between
\* two iterations.  The address of a record that passes is appended; the
\* record stays.  After the last key the call goes on to line 148; with an
\* empty table it does so at once.
Sweep(h) ==
    /\ pc[h] = "sweep"
    /\ LET rest == DOMAIN leases \ visited[h]
       IN  IF rest = {}
           THEN /\ availableIPs' = availableIPs
                /\ pc' = [pc EXCEPT ![h] = "alloc"]
                /\ visited' = [visited EXCEPT ![h] = {}]
           ELSE \E m \in rest :
                   /\ availableIPs' = IF m \in Reclaimable(leases, arg[h], now)
                                      THEN Append(availableIPs, leases[m].ip)
                                      ELSE availableIPs
                   /\ IF rest = {m}
                      THEN /\ pc' = [pc EXCEPT ![h] = "alloc"]
                           /\ visited' = [visited EXCEPT ![h] = {}]
                      ELSE /\ visited' = [visited EXCEPT ![h] = @ \cup {m}]
                           /\ UNCHANGED pc
    /\ ret' = NoReturn
    /\ served' = NoServed
    /\ UNCHANGED <<reserved, leases, mutex, now, arg, kind, res, everExpired,
                   entryIP, droppedIP, sweepEntry>>

\* Mutant of Allocate: the address handed out stays in the pool.
AllocateKeepsHead(h) ==
    /\ pc[h] = "alloc"
    /\ IF Len(availableIPs) = 0
       THEN /\ Return(h, NoIP, ErrNoAvailable)
            /\ UNCHANGED <<leases, availableIPs>>
       ELSE /\ availableIPs' = availableIPs
            /\ leases' = SetLease(leases, arg[h],
                            [ip |-> Head(availableIPs), exp |-> Expiry(now)])
            /\ Return(h, Head(availableIPs), ErrNone)
    /\ UNCHANGED <<reserved, now, everExpired>>

\* Mutant of Allocate: the address is taken from the tail of the pool.
AllocateFromTail(h) ==
    /\ pc[h] = "alloc"
    /\ IF Len(availableIPs) = 0
       THEN /\ Return(h, NoIP, ErrNoAvailable)
            /\ UNCHANGED <<leases, availableIPs>>
       ELSE /\ availableIPs' = SubSeq(availableIPs, 1, Len(availableIPs) - 1)
            /\ leases' = SetLease(leases, arg[h],
                            [ip |-> availableIPs[Len(availableIPs)], exp |-> Expiry(now)])
            /\ Return(h, availableIPs[Len(availableIPs)], ErrNone)
    /\ UNCHANGED <<reserved, now, everExpired>>

\* Mutant of Allocate: the failing call leaves a record without an address
\* for its caller.
AllocateRecordsFailure(h) ==
    /\ pc[h] = "alloc"
    /\ IF Len(availableIPs) = 0
       THEN /\ leases' = SetLease(leases, arg[h], [ip |-> NoIP, exp |-> Expiry(now)])
            /\ Return(h, NoIP, ErrNoAvailable)
            /\ UNCHANGED availableIPs
       ELSE /\ availableIPs' = Tail(availableIPs)
            /\ leases' = SetLease(leases, arg[h],
                            [ip |-> Head(availableIPs), exp |-> Expiry(now)])
            /\ Return(h, Head(availableIPs), ErrNone)
    /\ UNCHANGED <<reserved, now, everExpired>>

\* Mutant of Allocate: a DISCOVER is offered the head of the pool without
\* taking it or recording a lease; only a REQUEST commits.
AllocateOnRequest(h) ==
    /\ pc[h] = "alloc"
    /\ IF Len(availableIPs) = 0
       THEN /\ Return(h, NoIP, ErrNoAvailable)
            /\ UNCHANGED <<leases, availableIPs>>
       ELSE IF kind[h] = Discover
            THEN /\ Return(h, Head(availableIPs), ErrNone)
                 /\ UNCHANGED <<leases, availableIPs>>
            ELSE /\ availableIPs' = Tail(availableIPs)
                 /\ leases' = SetLease(leases, arg[h],
                                 [ip |-> Head(availableIPs), exp |-> Expiry(now)])
                 /\ Return(h, Head(availableIPs), ErrNone)
    /\ UNCHANGED <<reserved, now, everExpired>>

\* Lines 147-159: the head of the pool, or the error.
Allocate(h) ==
    /\ pc[h] = "alloc"
    /\ IF Len(availableIPs) = 0
       THEN /\ Return(h, NoIP, ErrNoAvailable)
            /\ UNCHANGED <<leases, availableIPs>>
       ELSE /\ availableIPs' = Tail(availableIPs)
            /\ leases' = SetLease(leases, arg[h],
                            [ip |-> Head(availableIPs), exp |-> Expiry(now)])
            /\ Return(h, Head(availableIPs), ErrNone)
    /\ UNCHANGED <<reserved, now, everExpired>>

\* Lines 173-176 and 198-201, outside the mutex: getIPForClient returned an
\* error; ServeDHCP logs it and returns without writing anything.
Drop(h) ==
    /\ pc[h] = "fail"
    /\ pc' = [pc EXCEPT ![h] = "idle"]
    /\ arg' = [arg EXCEPT ![h] = NoMac]
    /\ kind' = [kind EXCEPT ![h] = NoType]
    /\ ret' = NoReturn
    /\ served' = [op |-> OpRequest, type |-> kind[h], mac |-> arg[h],
                  reply |-> NoType, yiaddr |-> NoIP]
    /\ UNCHANGED <<reserved, leases, availableIPs, mutex, now, res, everExpired,
                   entryIP, droppedIP, visited, sweepEntry>>

\* Mutant of Reply: the reply carries the address the lease table holds for
\* the client when the reply is written.
ReplyFromTable(h, sent) ==
    /\ pc[h] = "reply"
    /\ pc' = [pc EXCEPT ![h] = "idle"]
    /\ arg' = [arg EXCEPT ![h] = NoMac]
    /\ kind' = [kind EXCEPT ![h] = NoType]
    /\ res' = [res EXCEPT ![h] = NoIP]
    /\ ret' = NoReturn
    /\ served' = [op |-> OpRequest, type |-> kind[h], mac |-> arg[h],
                  reply |-> IF sent THEN ReplyType(kind[h]) ELSE NoType,
                  yiaddr |-> IF sent /\ arg[h] \in DOMAIN leases
                             THEN leases[arg[h]].ip ELSE NoIP]
    /\ UNCHANGED <<reserved, leases, availableIPs, mutex, now, everExpired,
                   entryIP, droppedIP, visited, sweepEntry>>

\* Lines 178-194 and 203-219, outside the mutex: the reply is built with
\* WithYourIP(ip) and written to the connection.  sent is FALSE when
\* dhcpv4.New fails (187-190, 212-215) or WriteTo fails (192-194, 217-219):
\* the failure is logged and nothing reaches the wire.
Reply(h, sent) ==
    /\ pc[h] = "reply"
    /\ pc' = [pc EXCEPT ![h] = "idle"]
    /\ arg' = [arg EXCEPT ![h] = NoMac]
    /\ kind' = [kind EXCEPT ![h] = NoType]
    /\ res' = [res EXCEPT ![h] = NoIP]
    /\ ret' = NoReturn
    /\ served' = [op |-> OpRequest, type |-> kind[h], mac |-> arg[h],
                  reply |-> IF sent THEN ReplyType(kind[h]) ELSE NoType,
                  yiaddr |-> IF sent THEN res[h] ELSE NoIP]
    /\ UNCHANGED <<reserved, leases, availableIPs, mutex, now, everExpired,
                   entryIP, droppedIP, visited, sweepEntry>>

\* Mutant of Tick: a timer reclaims a lease the moment it has run out; the
\* record is removed and its address appended to the pool.
TickReclaims ==
    LET gone == { m \in DOMAIN leases :
                    After(now + 1, leases[m]) /\ ~IsReserved(leases[m].ip) }
    IN  /\ now < MaxTime
        /\ now' = now + 1
        /\ everExpired' = (everExpired \/ \E m \in DOMAIN leases : After(now + 1, leases[m]))
        /\ \E order \in Orders(gone) :
              availableIPs' = availableIPs \o
                  [i \in 1..Len(order) |-> leases[order[i]].ip]
        /\ leases' = [m \in DOMAIN leases \ gone |-> leases[m]]
        /\ ret' = NoReturn
        /\ served' = NoServed
        /\ UNCHANGED <<reserved, mutex, pc, arg, kind, res, entryIP, droppedIP, visited, sweepEntry>>

\* A second passes, whatever the handlers are doing: the mutex does not stop
\* the clock, which every time.Now() of the code reads anew.
Tick ==
    /\ now < MaxTime
    /\ now' = now + 1
    /\ everExpired' = (everExpired \/ \E m \in DOMAIN leases : After(now + 1, leases[m]))
    /\ ret' = NoReturn
    /\ served' = NoServed
    /\ UNCHANGED <<reserved, leases, availableIPs, mutex, pc, arg, kind, res,
                   entryIP, droppedIP, visited, sweepEntry>>

Next ==
    \/ \E h \in Handlers, mac \in MACs, k \in ServedTypes : Call(h, mac, k)
    \/ \E h \in Handlers : Lock(h)
    \/ \E h \in Handlers : ReservedPath(h)
    \/ \E h \in Handlers : ReusePath(h)
    \/ \E h \in Handlers : Sweep(h)
    \/ \E h \in Handlers : Allocate(h)
    \/ \E h \in Handlers : Drop(h)
    \/ \E h \in Handlers, sent \in BOOLEAN : Reply(h, sent)
    \/ Tick

Spec == Init /\ [][Next]_vars

\* The server under every packet the listener hands to ServeDHCP, on the two
\* configurations where getIPForClient fails soonest: a reservation inside
\* the range, which leaves one address for two dynamic clients, and a
\* reservation whose text does not parse.
ServeConfigs ==
    { [m \in {"A"} |-> <<"dotted", 3>>],
      [m \in {"A"} |-> <<"bad", 0>>] }

InitServe == Init /\ reserved \in ServeConfigs

NextServe ==
    \/ Next
    \/ \E h \in Handlers, pkt \in IgnoredPackets : Ignore(h, pkt)

ServeSpec == InitServe /\ [][NextServe]_vars

\* A handler that holds the mutex keeps running (the body of getIPForClient
\* has no blocking operation), and a handler waiting in s.mutex.Lock() gets
\* the mutex when it is released again and again: sync.Mutex hands the lock
\* to a waiter that has been starved.  Packets and the clock are under no
\* obligation.
Body(h) == ReservedPath(h) \/ ReusePath(h) \/ Sweep(h) \/ Allocate(h)

Fairness == \A h \in Handlers : WF_vars(Body(h)) /\ SF_vars(Lock(h))

LiveSpec == InitServe /\ [][Next]_vars /\ Fairness

\* ------------------------------------------------------------- claims
RangeSize == RangeHi - RangeLo + 1

\* A lease that has not run out, as the conflict checks read it (line 109).
Active(m) == m \in DOMAIN leases /\ Before(now, leases[m])

\* A record past its expiry, as the sweep reads it (line 124).
Expired(m) == m \in DOMAIN leases /\ After(now, leases[m])

\* Every reservation value is the canonical text of an address of the range.
CanonicalConfig ==
    \A m \in DOMAIN reserved :
        /\ reserved[m][1] = "dotted"
        /\ reserved[m][2] \in RangeLo..RangeHi

\* Some handler is between Lock and its return.
Inside(h) == pc[h] \in {"check", "sweep", "alloc"}

\* Handler h returns from getIPForClient in this step.
Returns(h) == Inside(h) /\ pc'[h] \in {"reply", "fail"}

\* Handler h takes a step of its sweep: one iteration of the loop, or the
\* way past an empty table.
Sweeps(h) == pc[h] = "sweep" /\ (pc'[h] # pc[h] \/ visited'[h] # visited[h])

\* Handler h takes a step between Lock and its return.
Steps(h) == Inside(h) /\ (pc'[h] # pc[h] \/ visited'[h] # visited[h])

\* C1: no address is bound by unexpired leases to two different hardware
\* addresses at once.  Stated for configurations without reservations, where
\* every client is served from the pool.
NoDoubleBinding ==
    reserved = NoReservations =>
        \A m1, m2 \in MACs :
            (m1 # m2 /\ Active(m1) /\ Active(m2)) => leases[m1].ip # leases[m2].ip

\* C2: a call for a hardware address with a parseable reservation returns the
\* reserved address and leaves that client's record bound to it, expiring one
\* lease duration after the call.
ReservationPrecedence ==
    [][\A m \in DOMAIN reserved :
          (ParseIP(reserved[m]) # NoIP /\ ret'.mac = m) =>
              /\ ret'.err = ErrNone
              /\ ret'.ip = ParseIP(reserved[m])
              /\ m \in DOMAIN leases'
              /\ leases'[m] = [ip |-> ParseIP(reserved[m]),
                               exp |-> now + LeaseDuration]]_vars

\* Witness of C2: the reserved client is answered with its address while the
\* pool is empty and it already had a record from an earlier second.
ReservedServedOnEmptyPool ==
    /\ ret.mac \in DOMAIN reserved
    /\ ret.err = ErrNone
    /\ ret.ip = ParseIP(reserved[ret.mac])
    /\ Len(availableIPs) = 0
    /\ now > 0
    /\ \E m \in DOMAIN leases : m \notin DOMAIN reserved /\ Active(m)

\* The address a call of handler h has to return to be sticky: the one its
\* client holds by an unexpired lease when the call reads the table.
StickyIP(h) ==
    IF pc[h] = "check"
    THEN IF Active(arg[h]) THEN leases[arg[h]].ip ELSE NoIP
    ELSE entryIP

\* C3: a call made before the caller's lease runs out returns the address of
\* that lease.  Stated for configurations without reservations.
Stickiness ==
    [][\A h \in Handlers :
          (reserved = NoReservations /\ Returns(h) /\ StickyIP(h) # NoIP) =>
              (ret'.err = ErrNone /\ ret'.ip = StickyIP(h))]_vars

\* C4: with no reservations, once as many distinct clients as the range has
\* addresses hold a record and no record has ever been past its expiry, the
\* call of one more client ends with the pool-exhausted error.
Exhaustion ==
    [][\A h \in Handlers :
          ( /\ Returns(h)
            /\ reserved = NoReservations
            /\ ~everExpired
            /\ arg[h] \notin DOMAIN leases
            /\ Cardinality(DOMAIN leases) = RangeSize ) =>
              ret' = [mac |-> arg[h], ip |-> NoIP, err |-> ErrNoAvailable]]_vars

\* Witness of C4: the refused client, while every address of the range is
\* held and nothing has expired.
RefusedOnFullRange ==
    /\ reserved = NoReservations
    /\ ~everExpired
    /\ ret.err = ErrNoAvailable
    /\ ret.mac \notin DOMAIN leases
    /\ Cardinality(DOMAIN leases) = RangeSize
    /\ \A m \in DOMAIN leases : Active(m)

\* The addresses bound by unexpired leases of clients without a reservation.
DynamicBound == { leases[m].ip : m \in { x \in MACs \ DOMAIN reserved : Active(x) } }

\* The addresses named by the reservations.
ReservedIPs == { ParseIP(reserved[m]) : m \in DOMAIN reserved } \ {NoIP}

\* C5: pool entries + addresses bound by unexpired leases of non-reserved
\* clients + reserved addresses never exceed the size of the range.  Stated
\* for configurations whose reservations are canonical addresses of the range.
PoolConservation ==
    CanonicalConfig =>
        Len(availableIPs) + Cardinality(DynamicBound) + Cardinality(ReservedIPs)
            <= RangeSize

\* C6: an expired lease gives its address back once, so the pool never holds
\* the same address twice.  Stated for configurations without reservations.
PoolHasNoDuplicates ==
    reserved = NoReservations =>
        \A i, j \in 1..Len(availableIPs) :
            i # j => availableIPs[i] # availableIPs[j]

\* C7: between calls, an address of the pool is neither reserved nor the
\* address of an unexpired lease.  Stated for configurations whose
\* reservations are canonical addresses of the range.
PoolDisjointFromLeases ==
    (CanonicalConfig /\ ~mutex) =>
        \A i \in 1..Len(availableIPs) :
            /\ availableIPs[i] \notin ReservedIPs
            /\ \A m \in MACs : Active(m) => leases[m].ip # availableIPs[i]

\* C8: at most one call is between Lock and its return, the mutex is held
\* exactly while one is, and as long as no record has been past its expiry
\* no two clients are bound to the same address (canonical configurations).
Atomicity ==
    /\ Cardinality({ h \in Handlers : Inside(h) }) <= 1
    /\ mutex <=> \E h \in Handlers : Inside(h)
    /\ (CanonicalConfig /\ ~everExpired) =>
           \A m1, m2 \in DOMAIN leases : m1 # m2 => leases[m1].ip # leases[m2].ip

\* Witness of C8: one call is in the allocation step while a call of another
\* new client waits for the mutex, on a pool nobody has drawn from yet.
ContendedFreshPool ==
    \E h1, h2 \in Handlers :
        /\ pc[h1] = "alloc"
        /\ pc[h2] = "lock"
        /\ arg[h1] # arg[h2]
        /\ leases = << >>
        /\ reserved = NoReservations

\* The records a sweep run for client mac may reclaim when the clock reads
\* t, read from the claim: expired, of a client without reservation, address
\* not held by another client's unexpired lease.
ExpiredFreeAt(mac, t) ==
    { m \in DOMAIN leases \ DOMAIN reserved :
        /\ m # mac
        /\ After(t, leases[m])
        /\ \A o \in DOMAIN leases :
              (o # m /\ Before(t, leases[o])) => leases[o].ip # leases[m].ip }

ExpiredFree(mac) == ExpiredFreeAt(mac, now)

\* C9: a call that went on to the sweep while some expired record of a
\* non-reserved client was free leaves the sweep with a pool longer than it
\* found, hence not empty, and then returns the head of the pool without an
\* error; when it had found the pool empty, the address it returns is that of
\* an expired record of another client.  What a step of the sweep appends is
\* the address of an expired record of another client, and every call that
\* reaches the allocation with a non-empty pool succeeds with its head.
RecoveryAfterExpiry ==
    [][\A h \in Handlers :
          /\ ( /\ pc[h] = "sweep" /\ pc'[h] = "alloc"
               /\ ExpiredFreeAt(arg[h], sweepEntry.at) # {} ) =>
                 /\ Len(availableIPs') > sweepEntry.len
                 /\ availableIPs' # << >>
          /\ Sweeps(h) =>
                 \A i \in (Len(availableIPs) + 1)..Len(availableIPs') :
                     \E m \in DOMAIN leases :
                         m # arg[h] /\ Expired(m) /\ leases[m].ip = availableIPs'[i]
          /\ ( /\ pc[h] = "alloc" /\ pc'[h] # pc[h]
               /\ ExpiredFreeAt(arg[h], sweepEntry.at) # {} ) =>
                 /\ ret' = [mac |-> arg[h], ip |-> Head(availableIPs), err |-> ErrNone]
                 /\ pc'[h] = "reply"
                 /\ res'[h] = ret'.ip
                 /\ sweepEntry.len = 0 =>
                        \E m \in DOMAIN leases :
                            m # arg[h] /\ Expired(m) /\ leases[m].ip = ret'.ip
          /\ ( /\ pc[h] = "alloc" /\ pc'[h] # pc[h]
               /\ availableIPs # << >> ) =>
                 /\ ret' = [mac |-> arg[h], ip |-> Head(availableIPs), err |-> ErrNone]
                 /\ pc'[h] = "reply"
                 /\ arg[h] \in DOMAIN leases'
                 /\ leases'[arg[h]].ip = Head(availableIPs)]_vars

\* A and B hold 2 and 3, the whole range, and both records are expired when
\* the clock reads t.
AllExpiredAt(t) ==
    /\ reserved = NoReservations
    /\ RangeSize = 2
    /\ {"A", "B"} \subseteq DOMAIN leases
    /\ leases["A"].ip = 2 /\ leases["B"].ip = 3
    /\ After(t, leases["A"]) /\ After(t, leases["B"])

AllExpired == AllExpiredAt(now)

\* Witness of C9: C is answered with an address of an expired lease after
\* A and B took the whole range and expired.
RecoveredAfterExpiry ==
    /\ AllExpired
    /\ ret.mac = "C" /\ ret.err = ErrNone
    /\ ret.ip \in {2, 3}
    /\ Len(availableIPs) = 1

\* C's call is about to draw from a pool that holds exactly the two
\* addresses its sweep reclaimed from A and B.
ReclaimScenario(h) ==
    /\ AllExpired
    /\ pc[h] = "alloc" /\ arg[h] = "C"
    /\ "C" \notin DOMAIN leases
    /\ Len(availableIPs) = 2

\* C10 as claimed: in the scenario the newcomer is always answered with 2.
DeterministicReclaim ==
    [][\A h \in Handlers :
          (ReclaimScenario(h) /\ Returns(h)) => ret'.ip = 2]_vars

\* C10 as amended: when both records had expired before the sweep began, the
\* sweep leaves 2 and 3 in the pool it found empty, in the order it visited
\* the records, and the newcomer is answered with the first of them.
ReclaimInVisitOrder ==
    [][\A h \in Handlers :
          /\ ( /\ AllExpiredAt(sweepEntry.at)
               /\ pc[h] = "sweep" /\ pc'[h] = "alloc" /\ arg[h] = "C"
               /\ "C" \notin DOMAIN leases
               /\ sweepEntry.len = 0 ) =>
                 /\ Len(availableIPs') = 2
                 /\ { availableIPs'[i] : i \in 1..2 } = {2, 3}
          /\ (ReclaimScenario(h) /\ Returns(h)) =>
                 /\ ret'.err = ErrNone
                 /\ ret'.ip = Head(availableIPs)
                 /\ ret'.ip \in {2, 3}
                 /\ availableIPs' = Tail(availableIPs)]_vars

\* Witness of C10: the newcomer is answered with 3, the address B obtained
\* last.
ReclaimedLastFirst ==
    /\ AllExpired
    /\ ret.mac = "C" /\ ret.err = ErrNone /\ ret.ip = 3
    /\ availableIPs = <<2>>

\* ---------------------------------------------------------------------------
\* C11  Reply protocol.  As stated: a boot request with message type DISCOVER
\* is answered by one OFFER and one with REQUEST by one ACK, carrying the
\* address getIPForClient returned for the packet's hardware address, exactly
\* when getIPForClient returned no error.  The code builds and writes the
\* reply after getIPForClient has returned and released the mutex, and gives
\* up silently when dhcpv4.New or WriteTo fails.
Ignored == served'.op # NoType /\ <<served'.op, served'.type>> \in IgnoredPackets

\* The step in which handler h ends the handling of a packet whose call
\* succeeded: the reply is written, or building or sending it has failed.
Replies(h) == pc[h] = "reply" /\ pc'[h] = "idle"

\* The step in which handler h ends the handling of a packet whose call
\* returned an error.
Drops(h) == pc[h] = "fail" /\ pc'[h] = "idle"

\* C11 as stated: the handling of every packet whose call returned no error
\* ends with the reply of its type carrying the returned address, and on an
\* error nothing is written.
ReplyProtocol ==
    [][\A h \in Handlers :
          /\ Replies(h) =>
                 /\ served'.reply = ReplyType(kind[h])
                 /\ served'.yiaddr = res[h]
          /\ Drops(h) => served'.reply = NoType ]_vars

\* C11 amended: a packet gets at most one reply, written in a step of its own
\* after the return of a successful call and outside the mutex; a reply is an
\* OFFER for a DISCOVER and an ACK for a REQUEST, goes to the packet's
\* hardware address and carries the address the call returned, whatever the
\* lease table says by then; when building or sending fails nothing is
\* written and the lease stays recorded; after a call that returned an error
\* the handling ends, in a later step outside the mutex, without a reply; a packet that is no boot request, or has
\* another message type, gets no reply and leaves the pool and the lease
\* table as they were.
ReplyOnlyAfterSuccess ==
    [][ /\ \A h \in Handlers :
              /\ Returns(h) =>
                     /\ ret'.mac = arg[h]
                     /\ served'.reply = NoType
                     /\ (ret'.err = ErrNone) <=> (pc'[h] = "reply")
                     /\ (ret'.err # ErrNone) <=> (pc'[h] = "fail")
                     /\ res'[h] = ret'.ip
                     /\ (ret'.err = ErrNone) <=> (res'[h] # NoIP)
                     /\ arg'[h] = arg[h]
                     /\ kind'[h] = kind[h]
              /\ (pc'[h] \in {"reply", "fail"} /\ pc[h] # pc'[h]) => Returns(h)
              /\ (pc[h] \in {"reply", "fail"} /\ pc'[h] = pc[h]) =>
                     /\ res'[h] = res[h]
                     /\ arg'[h] = arg[h]
                     /\ kind'[h] = kind[h]
              /\ (pc[h] \in {"reply", "fail"} /\ pc'[h] # pc[h]) => pc'[h] = "idle"
              /\ Replies(h) =>
                     /\ served'.op = OpRequest
                     /\ served'.type = kind[h]
                     /\ served'.mac = arg[h]
                     /\ served'.reply \in {ReplyType(kind[h]), NoType}
                     /\ served'.reply # NoType => served'.yiaddr = res[h]
                     /\ leases' = leases
                     /\ availableIPs' = availableIPs
                     /\ mutex' = mutex
              /\ Drops(h) =>
                     /\ served' = [op |-> OpRequest, type |-> kind[h], mac |-> arg[h],
                                   reply |-> NoType, yiaddr |-> NoIP]
                     /\ leases' = leases
                     /\ availableIPs' = availableIPs
                     /\ mutex' = mutex
        /\ Ignored =>
              /\ served'.reply = NoType
              /\ leases' = leases
              /\ availableIPs' = availableIPs
        /\ (served'.reply # NoType) => \E h \in Handlers : Replies(h) ]_vars

\* The handling of a DISCOVER of the client with the valid reservation, whose
\* calls never fail, has just ended without a reply: the client holds a
\* running lease it was never told of.
ReplyLost ==
    /\ served.op = OpRequest
    /\ served.type = Discover
    /\ served.reply = NoType
    /\ ret = NoReturn
    /\ served.mac \in DOMAIN reserved
    /\ ParseIP(reserved[served.mac]) # NoIP
    /\ served.mac \in DOMAIN leases
    /\ Active(served.mac)

\* ---------------------------------------------------------------------------
\* C12  Request-kind independence: what a step of getIPForClient returns and
\* what it leaves in the lease table and the pool are determined by the
\* allocator state, the time and the hardware address alone, the same for a
\* DISCOVER and for a REQUEST (up to the order in which the sweep visits the
\* map); a DISCOVER that succeeds has already created or renewed the lease,
\* and a REQUEST is acknowledged with whatever getIPForClient returns.
Outcome(ls, pool, r) == <<ls, pool, r>>

Returned(mac, ip, err) == [mac |-> mac, ip |-> ip, err |-> err]

\* The outcomes of the step handler h is about to take, written without the
\* message type of its packet.
StepOutcomes(h) ==
    LET mac == arg[h]
        renewed(ip) == SetLease(leases, mac, [ip |-> ip, exp |-> Expiry(now)])
    IN  IF pc[h] = "check"
        THEN IF mac \in DOMAIN reserved
             THEN IF ParseIP(reserved[mac]) = NoIP
                  THEN { Outcome(leases, availableIPs,
                                 Returned(mac, NoIP, ErrInvalidReserved)) }
                  ELSE { Outcome(renewed(ParseIP(reserved[mac])), availableIPs,
                                 Returned(mac, ParseIP(reserved[mac]), ErrNone)) }
             ELSE IF mac \notin DOMAIN leases
                  THEN { Outcome(leases, availableIPs, NoReturn) }
                  ELSE IF HeldByOther(leases, mac, leases[mac].ip, now)
                       THEN { Outcome(DeleteLease(leases, mac), availableIPs, NoReturn) }
                       ELSE { Outcome(renewed(leases[mac].ip), availableIPs,
                                      Returned(mac, leases[mac].ip, ErrNone)) }
        ELSE IF pc[h] = "sweep"
        THEN IF DOMAIN leases \subseteq visited[h]
             THEN { Outcome(leases, availableIPs, NoReturn) }
             ELSE { Outcome(leases,
                            IF m \in Reclaimable(leases, mac, now)
                            THEN Append(availableIPs, leases[m].ip)
                            ELSE availableIPs,
                            NoReturn) : m \in DOMAIN leases \ visited[h] }
        ELSE IF availableIPs = << >>
             THEN { Outcome(leases, availableIPs, Returned(mac, NoIP, ErrNoAvailable)) }
             ELSE { Outcome(renewed(Head(availableIPs)), Tail(availableIPs),
                            Returned(mac, Head(availableIPs), ErrNone)) }

KindIndependence ==
    [][\A h \in Handlers :
          Steps(h) =>
              /\ Outcome(leases', availableIPs', ret') \in StepOutcomes(h)
              /\ (Returns(h) /\ ret'.err = ErrNone) =>
                     /\ leases'[arg[h]] = [ip |-> ret'.ip, exp |-> Expiry(now)]
                     /\ res'[h] = ret'.ip ]_vars

\* The first packet the server ever served was a REQUEST of a client that was
\* never offered anything, and it was acknowledged with the head of the pool.
RequestAckedWithoutOffer ==
    /\ served.type = Request
    /\ served.reply = Ack
    /\ served.mac \notin DOMAIN reserved
    /\ DOMAIN leases = {served.mac}
    /\ now = 0
    /\ served.yiaddr = Head(InitialPool(RangeLo, reserved))
    /\ availableIPs = Tail(InitialPool(RangeLo, reserved))

\* ---------------------------------------------------------------------------
\* C13  Exhaustion is recoverable per request: the step that returns the
\* pool-exhausted error finds the pool empty and leaves it empty, leaves the
\* lease table as it is, and its caller has no record; no step of a call
\* touches another client's record, and the sweep only appends, so the pool
\* was empty throughout the failing call; on an empty pool a client with a
\* parseable reservation and a client whose own address no other client
\* actively holds are still served, without the pool.
ServedWithoutPool(h) ==
    IF arg[h] \in DOMAIN reserved
    THEN ParseIP(reserved[arg[h]]) # NoIP
    ELSE /\ arg[h] \in DOMAIN leases
         /\ ~HeldByOther(leases, arg[h], leases[arg[h]].ip, now)

OthersUntouched(h) ==
    \A m \in (DOMAIN leases \cup DOMAIN leases') \ {arg[h]} :
        /\ m \in DOMAIN leases
        /\ m \in DOMAIN leases'
        /\ leases'[m] = leases[m]

ExhaustionRecoverable ==
    [][\A h \in Handlers :
          (Inside(h) /\ pc'[h] # pc[h]) =>
              /\ OthersUntouched(h)
              /\ Len(availableIPs') >= Len(availableIPs) \/ pc[h] = "alloc"
              /\ ret'.err = ErrNoAvailable =>
                     /\ availableIPs = << >>
                     /\ availableIPs' = << >>
                     /\ leases' = leases
                     /\ arg[h] \notin DOMAIN leases'
                     /\ ret'.ip = NoIP
              /\ (pc[h] = "check" /\ availableIPs = << >> /\ ServedWithoutPool(h)) =>
                     /\ Returns(h)
                     /\ ret'.err = ErrNone
                     /\ ret'.ip # NoIP
                     /\ availableIPs' = << >> ]_vars

\* At the last instant a dynamic client has just been refused on the empty
\* pool while the reserved client and the other dynamic client, both served
\* again at that instant, keep their running leases.
RefusedBesideRunningLeases ==
    /\ ret.err = ErrNoAvailable
    /\ ret.mac \notin DOMAIN leases
    /\ availableIPs = << >>
    /\ DOMAIN reserved \subseteq DOMAIN leases
    /\ Cardinality(DOMAIN leases) = 2
    /\ \A m \in DOMAIN leases : Before(now, leases[m])
    /\ now = MaxTime

\* ---------------------------------------------------------------------------
\* C14  Reserved addresses stay out of dynamic allocation: the initial pool is
\* the range without the reserved addresses, and in every state no reserved
\* address is in the pool and no client without a reservation is returned or
\* bound to a reserved address.
InitialPoolExact ==
    (now = 0 /\ leases = << >> /\ ret = NoReturn) =>
        /\ { availableIPs[i] : i \in 1..Len(availableIPs) }
               = (RangeLo..RangeHi) \ ReservedIPs
        /\ Len(availableIPs) = Cardinality((RangeLo..RangeHi) \ ReservedIPs)

ReservedStayOut ==
    /\ InitialPoolExact
    /\ \A r \in ReservedIPs :
          /\ \A i \in 1..Len(availableIPs) : availableIPs[i] # r
          /\ \A m \in DOMAIN leases \ DOMAIN reserved : leases[m].ip # r
          /\ ret.mac \notin DOMAIN reserved => ret.ip # r

\* ---------------------------------------------------------------------------
\* C15  Lease reuse: when the caller has no reservation and has a lease
\* record, expired or not, and no other hardware address holds that record's
\* address with an unexpired lease, the call returns that address, sets the
\* record's expiry to now + lease duration, changes nothing else in the table
\* and leaves the pool as it is.
ReusePermitted(h) ==
    /\ pc[h] = "check"
    /\ arg[h] \notin DOMAIN reserved
    /\ arg[h] \in DOMAIN leases
    /\ ~\E o \in DOMAIN leases \ {arg[h]} :
           leases[o].ip = leases[arg[h]].ip /\ Active(o)

LeaseReuse ==
    [][\A h \in Handlers :
          (ReusePermitted(h) /\ pc'[h] # pc[h]) =>
              /\ Returns(h)
              /\ ret' = [mac |-> arg[h], ip |-> leases[arg[h]].ip, err |-> ErrNone]
              /\ leases' = [leases EXCEPT ![arg[h]].exp = now + LeaseDuration]
              /\ availableIPs' = availableIPs ]_vars

\* The only client the server ever saw let its lease run out and has just
\* been given the same address again; the pool still lacks only that address.
ReusedAfterOwnExpiry ==
    /\ reserved = NoReservations
    /\ everExpired
    /\ ret.err = ErrNone
    /\ DOMAIN leases = {ret.mac}
    /\ leases[ret.mac] = [ip |-> RangeLo, exp |-> now + LeaseDuration]
    /\ ret.ip = RangeLo
    /\ availableIPs = Tail(InitialPool(RangeLo, reserved))

\* ---------------------------------------------------------------------------
\* C16  Blocked reuse: a call of a client without a reservation whose record's
\* address is held by another client's unexpired lease removes the record and
\* goes on to the sweep; when it returns, the client either holds a new lease
\* on the address that was at the head of the pool, an address no other
\* client actively holds, or it gets the pool-exhausted error and has no
\* record.  Stated for configurations without reservations.
BlockedAtCheck(h) ==
    /\ pc[h] = "check"
    /\ arg[h] \notin DOMAIN reserved
    /\ arg[h] \in DOMAIN leases
    /\ \E o \in DOMAIN leases \ {arg[h]} :
          leases[o].ip = leases[arg[h]].ip /\ Active(o)

BlockedReuse ==
    [][\A h \in Handlers :
          /\ (BlockedAtCheck(h) /\ pc'[h] # pc[h] /\ reserved = NoReservations) =>
                 /\ leases' = DeleteLease(leases, arg[h])
                 /\ pc'[h] = "sweep"
                 /\ availableIPs' = availableIPs
          /\ (Returns(h) /\ droppedIP # NoIP /\ reserved = NoReservations) =>
                 \/ /\ ret'.err = ErrNone
                    /\ availableIPs # << >>
                    /\ ret'.ip = Head(availableIPs)
                    /\ leases'[arg[h]] = [ip |-> ret'.ip, exp |-> now + LeaseDuration]
                    /\ ~\E o \in DOMAIN leases' \ {arg[h]} :
                           leases'[o].ip = ret'.ip /\ now < leases'[o].exp
                 \/ /\ ret'.err = ErrNoAvailable
                    /\ availableIPs = << >>
                    /\ arg[h] \notin DOMAIN leases' ]_vars

\* ---------------------------------------------------------------------------
\* C17  Sweep condition: the sweep only appends to the pool, and every address
\* it appends belongs to a record whose expiry lies strictly before now, is
\* not a reserved address, and is not the address of any unexpired lease.
SweepCondition ==
    [][\A h \in Handlers :
          Sweeps(h) =>
              /\ Len(availableIPs') >= Len(availableIPs)
              /\ SubSeq(availableIPs', 1, Len(availableIPs)) = availableIPs
              /\ leases' = leases
              /\ \A i \in (Len(availableIPs) + 1)..Len(availableIPs') :
                    /\ \E m \in DOMAIN leases :
                          leases[m].ip = availableIPs'[i] /\ leases[m].exp < now
                    /\ availableIPs'[i] \notin ReservedIPs
                    /\ ~\E o \in DOMAIN leases :
                          leases[o].ip = availableIPs'[i] /\ now < leases[o].exp ]_vars

\* ---------------------------------------------------------------------------
\* C18  FIFO pool order: a new allocation returns the first element of the
\* pool and removes exactly that element; the sweep appends behind what the
\* pool holds; no other step changes the pool.  Hence, while nothing has
\* expired, the k-th new client receives the k-th element of the initial
\* pool, which lists addresses of the range in ascending order, and an
\* appended address is handed out only after everything in front of it.
FreshPool == InitialPool(RangeLo, reserved)

Ascending(q) == \A i, j \in 1..Len(q) : i < j => q[i] < q[j]

FifoOrder ==
    [][ /\ \A h \in Handlers :
              /\ (pc[h] = "alloc" /\ pc'[h] # pc[h] /\ availableIPs # << >>) =>
                     /\ ret' = [mac |-> arg[h], ip |-> availableIPs[1], err |-> ErrNone]
                     /\ availableIPs' = SubSeq(availableIPs, 2, Len(availableIPs))
                     /\ ~everExpired =>
                            /\ Ascending(FreshPool)
                            /\ ret'.ip = FreshPool[Len(FreshPool) - Len(availableIPs) + 1]
              /\ Sweeps(h) =>
                     /\ Len(availableIPs') >= Len(availableIPs)
                     /\ SubSeq(availableIPs', 1, Len(availableIPs)) = availableIPs
        /\ (\A h \in Handlers : ~Sweeps(h) /\ (pc[h] # "alloc" \/ pc'[h] = pc[h])) =>
              availableIPs' = availableIPs ]_vars

\* A was given .2 at time 0 and B asked at time 2: the sweep of B's call put
\* A's expired .2 behind .3, and B was given .3, the next address of the
\* range.
AscendingThenReclaimed ==
    /\ reserved = NoReservations
    /\ ret = [mac |-> "B", ip |-> 3, err |-> ErrNone]
    /\ leases = [m \in {"A", "B"} |->
                    IF m = "A" THEN [ip |-> 2, exp |-> 1]
                    ELSE [ip |-> 3, exp |-> 3]]
    /\ availableIPs = <<2>>

\* ---------------------------------------------------------------------------
\* C19  Invalid reservation: a call for a hardware address whose reservation
\* value does not parse returns the invalid-reservation error from the check
\* step, without reaching the sweep or the pool; it leaves the lease table
\* and the pool as they are, gets no reply, and that hardware address never
\* has a lease record.
InvalidlyReserved(mac) ==
    mac \in DOMAIN reserved /\ ParseIP(reserved[mac]) = NoIP

InvalidReservation ==
    [][ /\ \A h \in Handlers :
              (InvalidlyReserved(arg[h]) /\ Inside(h)) =>
                  /\ pc[h] = "check"
                  /\ pc'[h] # pc[h] =>
                         /\ ret' = [mac |-> arg[h], ip |-> NoIP, err |-> ErrInvalidReserved]
                         /\ served'.reply = NoType
                         /\ leases' = leases
                         /\ availableIPs' = availableIPs
        /\ \A h \in Handlers :
              (InvalidlyReserved(arg[h]) /\ pc[h] = "fail" /\ pc'[h] # pc[h]) =>
                  /\ served'.mac = arg[h]
                  /\ served'.reply = NoType
                  /\ leases' = leases
                  /\ availableIPs' = availableIPs
        /\ \A m \in MACs : InvalidlyReserved(m) => m \notin DOMAIN leases' ]_vars

\* The client with the unparseable reservation has just been refused while
\* two other clients hold the leases they were given from the pool.
InvalidRefusedBesideLeases ==
    /\ ret.err = ErrInvalidReserved
    /\ InvalidlyReserved(ret.mac)
    /\ Cardinality(DOMAIN leases) = 2
    /\ \A m \in DOMAIN leases : Active(m)
    /\ Len(availableIPs) = 1

\* ---------------------------------------------------------------------------
\* C20  Termination and lock release: under fair scheduling every started
\* call eventually returns, with an address or with an error; a call leaves
\* its wait for the mutex only by entering, so every waiting call eventually
\* enters; every return releases the mutex, which is held exactly while some
\* call is between Lock and return.
Started(h) == pc[h] \in {"lock", "check", "sweep", "alloc"}

Termination ==
    /\ \A h \in Handlers : Started(h) ~> ~Started(h)
    /\ [](mutex <=> \E h \in Handlers : Inside(h))
    /\ [][\A h \in Handlers :
             /\ (pc[h] = "lock" /\ pc'[h] # pc[h]) => (~mutex /\ pc'[h] = "check")
             /\ (pc[h] = "idle" /\ pc'[h] # pc[h]) => pc'[h] = "lock"
             /\ Returns(h) =>
                    /\ mutex' = FALSE
                    /\ ret'.mac = arg[h]
                    /\ (ret'.err = ErrNone) <=> (ret'.ip # NoIP) ]_vars

\* A call waits for the mutex while the call that holds it stands before the
\* empty pool, about to return the error.
WaitingBehindFailingCall ==
    \E h, g \in Handlers :
        /\ pc[h] = "alloc"
        /\ availableIPs = << >>
        /\ pc[g] = "lock"
        /\ mutex

\* ---------------------------------------------------------------------------
\* C21  Lazy expiry frame: the pool changes only in the sweep step or the
\* allocation step of a call; a call answered from the check step, by the
\* reservation or by reuse of the caller's record, leaves the pool and every
\* other client's record as they are; a step in which only time passes
\* changes neither the pool nor the lease table.
LazyExpiryFrame ==
    [][ /\ availableIPs' # availableIPs =>
              \E h \in Handlers : Sweeps(h) \/ (pc[h] = "alloc" /\ pc'[h] # pc[h])
        /\ \A h \in Handlers :
              (pc[h] = "check" /\ Returns(h)) =>
                  /\ availableIPs' = availableIPs
                  /\ OthersUntouched(h)
        /\ now' # now =>
              /\ availableIPs' = availableIPs
              /\ leases' = leases ]_vars

\* Every lease has run out, no call is in progress, and the lease table and
\* the pool are still what the last allocation left: the records stay and
\* their addresses are not in the pool.
ExpiredButNotReclaimed ==
    /\ leases # << >>
    /\ \A m \in DOMAIN leases : Expired(m)
    /\ \A h \in Handlers : pc[h] = "idle"
    /\ Cardinality(DOMAIN leases \ DOMAIN reserved) = 2
    /\ Len(availableIPs) = Len(FreshPool) - 2
    /\ \A m \in DOMAIN leases, i \in 1..Len(availableIPs) :
          availableIPs[i] # leases[m].ip

\* ---------------------------------------------------------------------------
\* C22  Lease record retention: a record leaves the lease table only in the
\* check step of its own client's call, when that client has no reservation
\* and another client holds the record's address with an unexpired lease;
\* the sweep leaves the table as it is; the record of a client with a
\* reservation stays once created and always binds the reserved address.
RecordRetention ==
    [][ /\ \A m \in DOMAIN leases :
              m \notin DOMAIN leases' =>
                  \E h \in Handlers :
                      /\ arg[h] = m
                      /\ BlockedAtCheck(h)
                      /\ pc'[h] = "sweep"
        /\ \A h \in Handlers :
              Sweeps(h) => leases' = leases
        /\ \A m \in DOMAIN reserved :
              /\ m \in DOMAIN leases => m \in DOMAIN leases'
              /\ m \in DOMAIN leases' => leases'[m].ip = ParseIP(reserved[m]) ]_vars

\* A call has just dropped its caller's record on the blocked path, while
\* the reserved client's record, run out, is still in the table.
DroppedBesideKeptRecords ==
    \E h \in Handlers :
        /\ pc[h] = "sweep"
        /\ droppedIP # NoIP
        /\ arg[h] \notin DOMAIN leases
        /\ \E m \in DOMAIN reserved : Expired(m)
        /\ \E o \in DOMAIN leases : leases[o].ip = droppedIP /\ Active(o)

====
